---- MODULE Spec2Model ----
(***************************************************************************)
(* StreamFlix: two worker threads fetch movie pages from a remote API into *)
(* two MovieDatabase collections, the caller joins both and then prints    *)
(* each collection three ways and a regex-filtered list.                   *)
(*                                                                         *)
(* Spec    models StreamFlix::Run (StreamFlix.cpp) with its two threads.   *)
(* SpecDB  models one MovieDatabase (MovieDatabase.h / MovieDatabase.cpp)  *)
(*         driven by arbitrary AddMovie / sorted-view calls.               *)
(***************************************************************************)
EXTENDS Integers, Sequences, FiniteSets, TLC

VARIABLES
    pcMain,          \* position of the caller inside StreamFlix::Run
    pc,              \* position of each worker thread
    coutMutex,       \* owner of std::mutex coutMutex, or "free"
    i,               \* loop variable of the popular thread (line 78)
    k,               \* per thread: index of the next item of ["results"]
    jsonString,      \* per thread: popularMoviesJsonString / nowPlayingMoviesJsonString
    movieJson,       \* popularMovieJson / nowPlayingMovieJson (parse buffers)
    db,              \* popularMovies / nowPlayingMovies (MovieDatabase::movies)
    cout,            \* lines written to std::cout, in order
    cerr,            \* lines written to std::cerr, in order
    consoleWriters,  \* threads that are in the middle of a console write
    requests,        \* per thread: the page of every request issued so far
    responses,       \* per thread: outcome of every request.send so far
    accessLog,       \* per object: the threads that wrote / read it
    terminated,      \* "no", or the place where std::terminate was called
    matchingMovies,  \* MovieList matchingMovies (line 119)
    movies,          \* SpecDB: MovieDatabase::movies
    sortedMovies,    \* SpecDB: the list returned by the last sorted view
    lastCall,        \* SpecDB: the last member function called
    added            \* SpecDB: the arguments of every AddMovie call so far

vars == <<pcMain, pc, coutMutex, i, k, jsonString, movieJson, db, cout, cerr,
          consoleWriters, requests, responses, accessLog, terminated, matchingMovies,
          movies, sortedMovies, lastCall, added>>

runVars == <<pcMain, pc, coutMutex, i, k, jsonString, movieJson, db, cout, cerr,
             consoleWriters, requests, responses, accessLog, terminated, matchingMovies>>

dbVars == <<movies, sortedMovies, lastCall, added>>

----------------------------------------------------------------------------
(* Bounds of the model *)

\* number of items of a full "results" page
MaxItems == 2

\* longest collection SpecDB builds
MaxLen == 3

\* width of the significand of the scaled-down float (real float: 24 bits)
FloatMantBits == 5

----------------------------------------------------------------------------
(* Text, numbers and Movie *)

\* Titles are sequences of character codes (char values), 0 is NUL.
\*   "Des"                "a\0b"            "dEs"             "des"
TitleDes == <<68, 101, 115>>
TitleNul == <<97, 0, 98>>
TitleMix == <<100, 69, 115>>
TitleLow == <<100, 101, 115>>

\* "The Shawshank Redemption", "Inception", "Desperado", "DES", "Hades"
TitleShawshank == <<84, 104, 101, 32, 83, 104, 97, 119, 115, 104, 97, 110, 107, 32, 82, 101, 100, 101, 109, 112, 116, 105, 111, 110>>
TitleInception == <<73, 110, 99, 101, 112, 116, 105, 111, 110>>
TitleDesperado == <<68, 101, 115, 112, 101, 114, 97, 100, 111>>
TitleUpper == <<68, 69, 83>>
TitleHades == <<72, 97, 100, 101, 115>>

RECURSIVE Pow2(_)
Pow2(n) == IF n = 0 THEN 1 ELSE 2 * Pow2(n - 1)

\* std::string(const char*): the characters before the first NUL.
RECURSIVE CStr(_)
CStr(s) ==
    IF s = <<>> \/ Head(s) = 0 THEN <<>>
    ELSE <<Head(s)>> \o CStr(Tail(s))

RECURSIVE BitLength(_)
BitLength(n) == IF n = 0 THEN 0 ELSE 1 + BitLength(n \div 2)

\* Conversion of a JSON number (double) to float: a value that needs more
\* than FloatMantBits significant bits is rounded to nearest, ties to even.
\* Ratings are non-negative integers, in tenths of a point.
ToFloat(d) ==
    IF BitLength(d) <= FloatMantBits THEN d
    ELSE LET unit == Pow2(BitLength(d) - FloatMantBits)
             q == d \div unit
             r == d % unit
         IN  IF 2 * r > unit \/ (2 * r = unit /\ q % 2 = 1)
             THEN (q + 1) * unit
             ELSE q * unit

\* a constructor taking the std::string itself
MovieFromString(str, rating) == [title |-> str, rating |-> rating]

\* Movie::Movie(const char* str, float rating)
Movie(str, rating) == [title |-> CStr(str), rating |-> rating]

\* AddMovie with push_front in place of push_back
AddMoviePushFront(list, title, rating) == <<Movie(title, rating)>> \o list

\* AddMovie that stores the new Record over the last one
AddMovieOverwrite(list, title, rating) ==
    IF list = <<>> THEN <<Movie(title, rating)>>
    ELSE [list EXCEPT ![Len(list)] = Movie(title, rating)]

\* AddMovie that refuses a title the list already holds
AddMovieUnique(list, title, rating) ==
    IF \E n \in 1..Len(list) : list[n].title = CStr(title) THEN list
    ELSE Append(list, Movie(title, rating))

\* MovieDatabase::AddMovie: movies.push_back(Movie{title.c_str(), rating})
AddMovie(list, title, rating) == Append(list, Movie(title, rating))

----------------------------------------------------------------------------
(* The remote API: what request.send can produce, and nlohmann::json *)

Workers == {"popularThread", "nowPlayingThread"}

\* for (int i = 1; i <= 5; ++i)
LastPage == 5

\* An element of "results": a JSON object that may lack either field.
JsonItem(t, v) == [hasTitle |-> TRUE, title |-> t, hasVote |-> TRUE, vote_average |-> v]
NoTitleItem == [hasTitle |-> FALSE, title |-> <<>>, hasVote |-> TRUE, vote_average |-> 1]
NoVoteItem == [hasTitle |-> TRUE, title |-> TitleLow, hasVote |-> FALSE, vote_average |-> 0]

\* The listing the remote serves: item n of a page.
CatalogueItem(n) ==
    CASE n % 3 = 1 -> JsonItem(TitleDes, 45)
      [] n % 3 = 2 -> JsonItem(TitleNul, 70)
      [] OTHER     -> JsonItem(TitleMix, 33)

CataloguePrefix(n) == [x \in 1..n |-> CatalogueItem(x)]

\* JSON documents: type is "null", "array" or "object"; an object may or may
\* not have the key "results" (an array of items).
JsonDoc(type, hasResults, results) ==
    [type |-> type, hasResults |-> hasResults, results |-> results]

Envelope(results) == JsonDoc("object", TRUE, results)

\* a page of the listing is either empty or full
WellFormedDocs == {Envelope(CataloguePrefix(n)) : n \in {0, MaxItems}}

DocsWithBadItem ==
    {Envelope(<<CatalogueItem(1), NoTitleItem>>), Envelope(<<NoVoteItem, CatalogueItem(1)>>)}

OtherDocs == {JsonDoc("array", FALSE, <<>>), JsonDoc("object", FALSE, <<>>)}

\* A std::string holding a response body: empty, text that is not JSON, or
\* the serialisation of a JSON document.
EmptyString == [text |-> "empty", doc |-> JsonDoc("null", FALSE, <<>>)]
Garbage == [text |-> "garbage", doc |-> JsonDoc("null", FALSE, <<>>)]
JsonText(doc) == [text |-> "json", doc |-> doc]

Bodies == {Garbage} \cup {JsonText(d) : d \in WellFormedDocs \cup DocsWithBadItem \cup OtherDocs}

\* http::Request::send either throws (connection refused, timeout, DNS
\* failure) or returns a response.
SendThrows == [kind |-> "exception", body |-> EmptyString]
SendReturns(body) == [kind |-> "response", body |-> body]
SendOutcomes == {SendThrows} \cup {SendReturns(b) : b \in Bodies}

\* MakeHttpGetRequest without the try/catch
MakeHttpGetRequestNoCatch(outcome) ==
    IF outcome.kind = "exception"
    THEN [escapes |-> TRUE, diagnostic |-> FALSE, ret |-> EmptyString]
    ELSE [escapes |-> FALSE, diagnostic |-> FALSE, ret |-> outcome.body]

\* TMDBServiceProvider::MakeHttpGetRequest: try { send; return body }
\* catch (const std::exception&) { std::cerr << ... }  return {};
MakeHttpGetRequest(outcome) ==
    IF outcome.kind = "exception"
    THEN [escapes |-> FALSE, diagnostic |-> TRUE, ret |-> EmptyString]
    ELSE [escapes |-> FALSE, diagnostic |-> FALSE, ret |-> outcome.body]

\* a parse that gives null for text that is not JSON (allow_exceptions = false)
JsonParseLenient(str) == [throws |-> FALSE, value |-> str.doc]

\* json::parse: throws parse_error unless the text is a JSON document.
JsonParse(str) ==
    IF str.text = "json" THEN [throws |-> FALSE, value |-> str.doc]
    ELSE [throws |-> TRUE, value |-> JsonDoc("null", FALSE, <<>>)]

\* a "results" lookup that also throws on an empty array
ResultsOfThrowsOnEmpty(doc) ==
    IF doc.type = "array" \/ (doc.type = "object" /\ doc.hasResults /\ doc.results = <<>>)
    THEN [throws |-> TRUE, list |-> <<>>]
    ELSE IF doc.type = "object" /\ doc.hasResults THEN [throws |-> FALSE, list |-> doc.results]
    ELSE [throws |-> FALSE, list |-> <<>>]

\* json::operator[]("results") and the range-for over it: type_error on a
\* non-object; null and a missing key give a null value, which iterates
\* zero times.
ResultsOf(doc) ==
    IF doc.type = "array" THEN [throws |-> TRUE, list |-> <<>>]
    ELSE IF doc.type = "object" /\ doc.hasResults THEN [throws |-> FALSE, list |-> doc.results]
    ELSE [throws |-> FALSE, list |-> <<>>]

\* operator[] on a non-const null value first turns it into an object.
Subscripted(doc) == IF doc.type = "null" THEN JsonDoc("object", FALSE, <<>>) ELSE doc

\* conversions that give a default value for a missing key
ItemThrowsNever(item) == FALSE

\* Conversion of movie["title"] to std::string and of movie["vote_average"]
\* to float: type_error when the key is missing (null value).
ItemThrows(item) == ~item.hasTitle \/ ~item.hasVote

----------------------------------------------------------------------------
(* MovieDatabase: the two sorted views *)

\* std::string operator< : lexicographic comparison of the character codes
RECURSIVE StrLess(_, _)
StrLess(a, b) ==
    IF b = <<>> THEN FALSE
    ELSE IF a = <<>> THEN TRUE
    ELSE IF Head(a) < Head(b) THEN TRUE
    ELSE IF Head(a) > Head(b) THEN FALSE
    ELSE StrLess(Tail(a), Tail(b))

\* the title comparison with the operands swapped
LessByTitleSwapped(a, b) == StrLess(b.title, a.title)

\* the title comparison with <= in place of <
LessByTitleOrEqual(a, b) == ~StrLess(b.title, a.title)

\* [](const Movie &a, const Movie &b) { return a.GetTitle() < b.GetTitle(); }
LessByTitle(a, b) == StrLess(a.title, b.title)

\* the rating comparison in ascending order
LessByRatingAscending(a, b) == a.rating < b.rating

\* the rating comparison with >= in place of >
LessByRatingOrEqual(a, b) == a.rating >= b.rating

\* [](const Movie &a, const Movie &b) { return a.GetRating() > b.GetRating(); }
LessByRating(a, b) == a.rating > b.rating

Comp(order, a, b) == IF order = "title" THEN LessByTitle(a, b) ELSE LessByRating(a, b)

\* std::list::merge(y, comp) on x: an element of y goes first only when
\* comp(it, element of x) holds.
RECURSIVE Merge(_, _, _)
Merge(order, x, y) ==
    IF x = <<>> THEN y
    ELSE IF y = <<>> THEN x
    ELSE IF Comp(order, Head(y), Head(x))
         THEN <<Head(y)>> \o Merge(order, x, Tail(y))
         ELSE <<Head(x)>> \o Merge(order, Tail(x), y)

\* std::list::sort (libstdc++): every element is carried into the first
\* empty bin, merging the full bins it passes.
RECURSIVE Carry(_, _, _, _)
Carry(order, bins, carry, c) ==
    IF c > Len(bins) THEN Append(bins, carry)
    ELSE IF bins[c] = <<>> THEN [bins EXCEPT ![c] = carry]
    ELSE Carry(order, [bins EXCEPT ![c] = <<>>], Merge(order, bins[c], carry), c + 1)

RECURSIVE FillBins(_, _, _)
FillBins(order, bins, list) ==
    IF list = <<>> THEN bins
    ELSE FillBins(order, Carry(order, bins, <<Head(list)>>, 1), Tail(list))

RECURSIVE MergeBins(_, _, _, _)
MergeBins(order, bins, acc, c) ==
    IF c > Len(bins) THEN acc
    ELSE MergeBins(order, bins, Merge(order, bins[c], acc), c + 1)

ListSort(order, list) == MergeBins(order, FillBins(order, <<>>, list), <<>>, 1)

\* MovieDatabase::GetMovies
GetMovies(list) == list

\* a view that sorts the member list itself (auto& sortedMovies = movies)
SourceAfterSortInPlace(list, sorted) == sorted

\* auto sortedMovies = movies;  the sort works on the copy, the member list
\* of the const member function stays as it is
SourceAfterSort(list, sorted) == list

\* MovieDatabase::GetMoviesSortedByTitle
GetMoviesSortedByTitle(list) == ListSort("title", list)

\* MovieDatabase::GetMoviesSortedByRating
GetMoviesSortedByRating(list) == ListSort("rating", list)

\* the pattern compiled with std::regex::icase
RegexSearchIcase(title) ==
    \E n \in 1..(Len(title) - 2) :
        /\ title[n] \in {100, 68}
        /\ title[n + 1] \in {101, 69}
        /\ title[n + 2] \in {115, 83}

\* std::regex_search(title, ".*[dD]es.*"): the title contains "des" or "Des"
RegexSearch(title) ==
    \E n \in 1..(Len(title) - 2) :
        /\ title[n] \in {100, 68}
        /\ title[n + 1] = 101
        /\ title[n + 2] = 115

----------------------------------------------------------------------------
(* StreamFlix::Run *)

\* both lambdas appending to popularMovies
CollectionShared(t) == "popularMovies"

\* the objects the lambdas capture by reference
Collection(t) == IF t = "popularThread" THEN "popularMovies" ELSE "nowPlayingMovies"
Buffer(t) == IF t = "popularThread" THEN "popularMovieJson" ELSE "nowPlayingMovieJson"

popularMovies == db["popularMovies"]
nowPlayingMovies == db["nowPlayingMovies"]
popularMovieJson == movieJson["popularMovieJson"]
nowPlayingMovieJson == movieJson["nowPlayingMovieJson"]

Objects == {"popularMovies", "nowPlayingMovies", "popularMovieJson", "nowPlayingMovieJson"}

\* every request asking for page 1
PageAlwaysFirst(t) == 1

\* the page a thread asks for: GetPopularMovies(i) / GetNowPlayingMovies(1)
Page(t) == IF t = "popularThread" THEN i ELSE 1

Line(kind, label, movie) == [kind |-> kind, label |-> label, movie |-> movie]
NoMovie == [title |-> <<>>, rating |-> 0]

Wrote(log, obj, t) == [log EXCEPT ![obj].writers = @ \cup {t}]
Read(log, obj, t) == [log EXCEPT ![obj].readers = @ \cup {t}]

Init ==
    /\ pcMain = "spawnPopular"
    /\ pc = [t \in Workers |-> "idle"]
    /\ coutMutex = "free"
    /\ i = 0
    /\ k = [t \in Workers |-> 0]
    /\ jsonString = [t \in Workers |-> EmptyString]
    /\ movieJson = [b \in {"popularMovieJson", "nowPlayingMovieJson"} |-> JsonDoc("null", FALSE, <<>>)]
    /\ db = [c \in {"popularMovies", "nowPlayingMovies"} |-> <<>>]
    /\ cout = <<>>
    /\ cerr = <<>>
    /\ consoleWriters = {}
    /\ requests = [t \in Workers |-> <<>>]
    /\ responses = [t \in Workers |-> <<>>]
    /\ accessLog = [o \in Objects |-> [writers |-> {}, readers |-> {}]]
    /\ terminated = "no"
    /\ matchingMovies = <<>>
    /\ movies = <<>>
    /\ sortedMovies = <<>>
    /\ lastCall = "none"
    /\ added = <<>>

Running == terminated = "no"

\* std::thread popularThread([&] {...});
SpawnPopular ==
    /\ Running
    /\ pcMain = "spawnPopular"
    /\ pc' = [pc EXCEPT !["popularThread"] = "lock"]
    /\ pcMain' = "spawnNowPlaying"
    /\ UNCHANGED <<coutMutex, i, k, jsonString, movieJson, db, cout, cerr,
                   consoleWriters, responses, accessLog, terminated, requests, matchingMovies, dbVars>>

\* std::thread nowPlayingThread([&] {...});
SpawnNowPlaying ==
    /\ Running
    /\ pcMain = "spawnNowPlaying"
    /\ pc' = [pc EXCEPT !["nowPlayingThread"] = "lock"]
    /\ pcMain' = "joinPopular"
    /\ UNCHANGED <<coutMutex, i, k, jsonString, movieJson, db, cout, cerr,
                   consoleWriters, responses, accessLog, terminated, requests, matchingMovies, dbVars>>

\* the start of the std::cout << statement without the lock_guard before it
LockWithoutMutex(t) ==
    /\ Running
    /\ pc[t] = "lock"
    /\ coutMutex' = t
    /\ consoleWriters' = consoleWriters \cup {t}
    /\ pc' = [pc EXCEPT ![t] = "print"]
    /\ UNCHANGED <<pcMain, i, k, jsonString, movieJson, db, cout, cerr,
                   responses, accessLog, terminated, requests, matchingMovies, dbVars>>

\* std::lock_guard lock(coutMutex);  the thread then starts its std::cout <<
Lock(t) ==
    /\ Running
    /\ pc[t] = "lock"
    /\ coutMutex = "free"
    /\ coutMutex' = t
    /\ consoleWriters' = consoleWriters \cup {t}
    /\ pc' = [pc EXCEPT ![t] = "print"]
    /\ UNCHANGED <<pcMain, i, k, jsonString, movieJson, db, cout, cerr,
                   responses, accessLog, terminated, requests, matchingMovies, dbVars>>

\* a lock taken with coutMutex.lock() and never unlocked
MutexKept(t) == t

\* ~lock_guard at the end of the scope
MutexAfterScope(t) == "free"

\* ... << std::this_thread::get_id() << std::endl;  }  (lock released),
\* then the popular thread enters its loop with i = 1
PrintThreadId(t) ==
    /\ Running
    /\ pc[t] = "print"
    /\ cout' = Append(cout, Line("threadId", t, NoMovie))
    /\ consoleWriters' = consoleWriters \ {t}
    /\ coutMutex' = MutexAfterScope(t)
    /\ i' = IF t = "popularThread" THEN 1 ELSE i
    /\ pc' = [pc EXCEPT ![t] = "fetch"]
    /\ UNCHANGED <<pcMain, k, jsonString, movieJson, db, cerr,
                   responses, accessLog, terminated, requests, matchingMovies, dbVars>>

\* GetPopularMovies(i) / GetNowPlayingMovies(1): request.send("GET") is issued
SendRequest(t) ==
    /\ Running
    /\ pc[t] = "fetch"
    /\ requests' = [requests EXCEPT ![t] = Append(@, Page(t))]
    /\ pc' = [pc EXCEPT ![t] = "wait"]
    /\ UNCHANGED <<pcMain, coutMutex, i, k, jsonString, movieJson, db, cout, cerr,
                   consoleWriters, responses, accessLog, terminated, matchingMovies, dbVars>>

\* request.send returns or throws inside MakeHttpGetRequest
Receive(t, outcome) ==
    /\ Running
    /\ pc[t] = "wait"
    /\ responses' = [responses EXCEPT ![t] = Append(@, outcome)]
    /\ LET r == MakeHttpGetRequest(outcome) IN
        IF r.escapes
        THEN /\ terminated' = "fetch"
             /\ UNCHANGED <<pc, jsonString, consoleWriters>>
        ELSE IF r.diagnostic
        THEN /\ pc' = [pc EXCEPT ![t] = "catch"]
             /\ consoleWriters' = consoleWriters \cup {t}
             /\ UNCHANGED <<jsonString, terminated>>
        ELSE /\ pc' = [pc EXCEPT ![t] = "parse"]
             /\ jsonString' = [jsonString EXCEPT ![t] = r.ret]
             /\ UNCHANGED <<consoleWriters, terminated>>
    /\ UNCHANGED <<pcMain, coutMutex, i, k, movieJson, db, cout, cerr, accessLog, requests, matchingMovies, dbVars>>

\* catch (const std::exception& e) { std::cerr << "Request failed, ..." }  return {};
ReportFailure(t) ==
    /\ Running
    /\ pc[t] = "catch"
    /\ cerr' = Append(cerr, Line("requestFailed", t, NoMovie))
    /\ consoleWriters' = consoleWriters \ {t}
    /\ jsonString' = [jsonString EXCEPT
                        ![t] = MakeHttpGetRequest(responses[t][Len(responses[t])]).ret]
    /\ pc' = [pc EXCEPT ![t] = "parse"]
    /\ UNCHANGED <<pcMain, coutMutex, i, k, movieJson, db, cout,
                   responses, accessLog, terminated, requests, matchingMovies, dbVars>>

\* popularMovieJson = json::parse(popularMoviesJsonString);
\* for (auto& movie : popularMovieJson["results"])   (range initialisation)
Parse(t) ==
    /\ Running
    /\ pc[t] = "parse"
    /\ LET p == JsonParse(jsonString[t]) IN
        IF p.throws
        THEN /\ terminated' = "parse"
             /\ UNCHANGED <<pc, k, movieJson, accessLog>>
        ELSE /\ movieJson' = [movieJson EXCEPT ![Buffer(t)] = Subscripted(p.value)]
             /\ accessLog' = Wrote(accessLog, Buffer(t), t)
             /\ IF ResultsOf(p.value).throws
                THEN /\ terminated' = "results"
                     /\ UNCHANGED <<pc, k>>
                ELSE /\ pc' = [pc EXCEPT ![t] = "items"]
                     /\ k' = [k EXCEPT ![t] = 1]
                     /\ UNCHANGED terminated
    /\ UNCHANGED <<pcMain, coutMutex, i, jsonString, db, cout, cerr,
                   consoleWriters, responses, requests, matchingMovies, dbVars>>

\* popularMovies.AddMovie(movie["title"], movie["vote_average"]);
AddItem(t) ==
    /\ Running
    /\ pc[t] = "items"
    /\ LET list == ResultsOf(movieJson[Buffer(t)]).list IN
        /\ k[t] <= Len(list)
        /\ IF ItemThrows(list[k[t]])
           THEN /\ terminated' = "item"
                /\ accessLog' = Read(accessLog, Buffer(t), t)
                /\ UNCHANGED <<db, k>>
           ELSE /\ db' = [db EXCEPT ![Collection(t)] =
                              AddMovie(@, list[k[t]].title, ToFloat(list[k[t]].vote_average))]
                /\ k' = [k EXCEPT ![t] = @ + 1]
                /\ accessLog' = Wrote(Read(accessLog, Buffer(t), t), Collection(t), t)
                /\ UNCHANGED terminated
    /\ UNCHANGED <<pcMain, pc, coutMutex, i, jsonString, movieJson, cout, cerr,
                   consoleWriters, responses, requests, matchingMovies, dbVars>>

\* an item loop that is left after its first test
PageFinishedAtOnce(t) == TRUE

\* the range-for has reached end()
PageFinished(t) == k[t] > Len(ResultsOf(movieJson[Buffer(t)]).list)

\* end of the range-for; ++i; i <= 5 ?   (the now-playing lambda returns)
EndOfPage(t) ==
    /\ Running
    /\ pc[t] = "items"
    /\ PageFinished(t)
    /\ IF t = "popularThread"
       THEN /\ i' = i + 1
            /\ pc' = [pc EXCEPT ![t] = IF i + 1 <= LastPage THEN "fetch" ELSE "done"]
       ELSE /\ pc' = [pc EXCEPT ![t] = "done"]
            /\ UNCHANGED i
    /\ UNCHANGED <<pcMain, coutMutex, k, jsonString, movieJson, db, cout, cerr,
                   consoleWriters, responses, accessLog, terminated, requests, matchingMovies, dbVars>>

\* a join that does not wait (the thread detached)
JoinableAtOnce(t) == TRUE

\* std::thread::join returns once the thread function has returned
Joinable(t) == pc[t] = "done"

\* popularThread.join();
JoinPopular ==
    /\ Running
    /\ pcMain = "joinPopular"
    /\ Joinable("popularThread")
    /\ pcMain' = "joinNowPlaying"
    /\ UNCHANGED <<pc, coutMutex, i, k, jsonString, movieJson, db, cout, cerr,
                   consoleWriters, responses, accessLog, terminated, requests, matchingMovies, dbVars>>

\* nowPlayingThread.join();
JoinNowPlaying ==
    /\ Running
    /\ pcMain = "joinNowPlaying"
    /\ Joinable("nowPlayingThread")
    /\ pcMain' = "displayPopular"
    /\ UNCHANGED <<pc, coutMutex, i, k, jsonString, movieJson, db, cout, cerr,
                   consoleWriters, responses, accessLog, terminated, requests, matchingMovies, dbVars>>

\* the two block titles exchanged
LabelSwapped(c) == IF c = "popularMovies" THEN "NOW PLAYING" ELSE "POPULAR"

\* the title argument of the Display calls: "POPULAR ..." / "NOW PLAYING ..."
Label(c) == IF c = "popularMovies" THEN "POPULAR" ELSE "NOW PLAYING"

\* the three header lines of a block, then one line per movie of the list
Block(kind, c, list) ==
    <<Line("rule", Label(c), NoMovie), Line(kind, Label(c), NoMovie), Line("rule", Label(c), NoMovie)>>
    \o [n \in 1..Len(list) |-> Line("movie", Label(c), list[n])]

\* StreamFlix::DisplayMovies(title, movieDatabase)
DisplayMovies(c) ==
    /\ Running
    /\ pcMain = (IF c = "popularMovies" THEN "displayPopular" ELSE "displayNowPlaying")
    /\ cout' = cout \o Block("insertionOrder", c, db[c])
    /\ accessLog' = Read(accessLog, c, "main")
    /\ pcMain' = (IF c = "popularMovies" THEN "displayPopularByTitle" ELSE "displayNowPlayingByTitle")
    /\ UNCHANGED <<pc, coutMutex, i, k, jsonString, movieJson, db, cerr,
                   consoleWriters, responses, terminated, requests, matchingMovies, dbVars>>

\* StreamFlix::DisplayMoviesSortedByTitle(title, movieDatabase)
DisplayMoviesSortedByTitle(c) ==
    /\ Running
    /\ pcMain = (IF c = "popularMovies" THEN "displayPopularByTitle" ELSE "displayNowPlayingByTitle")
    /\ cout' = cout \o Block("sortedAlphabetically", c, GetMoviesSortedByTitle(db[c]))
    /\ db' = [db EXCEPT ![c] = SourceAfterSort(@, GetMoviesSortedByTitle(db[c]))]
    /\ accessLog' = Read(accessLog, c, "main")
    /\ pcMain' = (IF c = "popularMovies" THEN "displayPopularByRating" ELSE "displayNowPlayingByRating")
    /\ UNCHANGED <<pc, coutMutex, i, k, jsonString, movieJson, cerr,
                   consoleWriters, responses, terminated, requests, matchingMovies, dbVars>>

\* StreamFlix::DisplayMoviesSortedByRating(title, movieDatabase)
DisplayMoviesSortedByRating(c) ==
    /\ Running
    /\ pcMain = (IF c = "popularMovies" THEN "displayPopularByRating" ELSE "displayNowPlayingByRating")
    /\ cout' = cout \o Block("sortedByRating", c, GetMoviesSortedByRating(db[c]))
    /\ db' = [db EXCEPT ![c] = SourceAfterSort(@, GetMoviesSortedByRating(db[c]))]
    /\ accessLog' = Read(accessLog, c, "main")
    /\ pcMain' = (IF c = "popularMovies" THEN "displayNowPlaying" ELSE "filter")
    /\ UNCHANGED <<pc, coutMutex, i, k, jsonString, movieJson, cerr,
                   consoleWriters, responses, terminated, requests, matchingMovies, dbVars>>

Matches(movie) == RegexSearch(movie.title)

\* copy_if into a std::front_inserter
MatchingMoviesFrontInserter(list) ==
    [n \in 1..Len(SelectSeq(list, Matches)) |->
        SelectSeq(list, Matches)[Len(SelectSeq(list, Matches)) - n + 1]]

\* std::copy_if(movies.begin(), movies.end(), back_inserter(matchingMovies), ...)
MatchingMovies(list) == SelectSeq(list, Matches)

\* for (auto& movie : matchingMovies) std::cout << "Matching movie: " << ...
FilterLines(list) == [n \in 1..Len(list) |-> Line("match", "Matching movie", list[n])]

\* a filter that runs over both collections
FilterBothCollections ==
    /\ Running
    /\ pcMain = "filter"
    /\ matchingMovies' = MatchingMovies(GetMovies(popularMovies) \o GetMovies(nowPlayingMovies))
    /\ cout' = cout \o FilterLines(MatchingMovies(GetMovies(popularMovies)
                                                    \o GetMovies(nowPlayingMovies)))
    /\ accessLog' = Read(accessLog, "popularMovies", "main")
    /\ pcMain' = "done"
    /\ UNCHANGED <<pc, coutMutex, i, k, jsonString, movieJson, db, cerr,
                   consoleWriters, responses, terminated, requests, dbVars>>

\* the regex filter and the "Matching movie: " lines; Run returns
Filter ==
    /\ Running
    /\ pcMain = "filter"
    /\ matchingMovies' = MatchingMovies(GetMovies(popularMovies))
    /\ cout' = cout \o FilterLines(MatchingMovies(GetMovies(popularMovies)))
    /\ accessLog' = Read(accessLog, "popularMovies", "main")
    /\ pcMain' = "done"
    /\ UNCHANGED <<pc, coutMutex, i, k, jsonString, movieJson, db, cerr,
                   consoleWriters, responses, terminated, requests, dbVars>>

Next ==
    \/ SpawnPopular
    \/ SpawnNowPlaying
    \/ \E t \in Workers : Lock(t)
    \/ \E t \in Workers : PrintThreadId(t)
    \/ \E t \in Workers : SendRequest(t)
    \/ \E t \in Workers : \E outcome \in SendOutcomes : Receive(t, outcome)
    \/ \E t \in Workers : ReportFailure(t)
    \/ \E t \in Workers : Parse(t)
    \/ \E t \in Workers : AddItem(t)
    \/ \E t \in Workers : EndOfPage(t)
    \/ JoinPopular
    \/ JoinNowPlaying
    \/ \E c \in {"popularMovies", "nowPlayingMovies"} : DisplayMovies(c)
    \/ \E c \in {"popularMovies", "nowPlayingMovies"} : DisplayMoviesSortedByTitle(c)
    \/ \E c \in {"popularMovies", "nowPlayingMovies"} : DisplayMoviesSortedByRating(c)
    \/ Filter

Spec == Init /\ [][Next]_vars

----------------------------------------------------------------------------
(* One MovieDatabase used directly: any sequence of AddMovie and view calls *)

DBTitles == {TitleDes, TitleNul, TitleMix, TitleLow}
DBRatings == {3, 8}

\* movieDatabase.AddMovie(title, rating)
CallAddMovie(title, rating) ==
    /\ Len(movies) < MaxLen
    /\ movies' = AddMovie(movies, title, rating)
    /\ added' = Append(added, [title |-> title, rating |-> rating])
    /\ sortedMovies' = <<>>
    /\ lastCall' = "AddMovie"
    /\ UNCHANGED runVars

\* movieDatabase.GetMoviesSortedByTitle()
CallGetMoviesSortedByTitle ==
    /\ sortedMovies' = GetMoviesSortedByTitle(movies)
    /\ movies' = SourceAfterSort(movies, GetMoviesSortedByTitle(movies))
    /\ lastCall' = "GetMoviesSortedByTitle"
    /\ UNCHANGED <<added, runVars>>

\* movieDatabase.GetMoviesSortedByRating()
CallGetMoviesSortedByRating ==
    /\ sortedMovies' = GetMoviesSortedByRating(movies)
    /\ movies' = SourceAfterSort(movies, GetMoviesSortedByRating(movies))
    /\ lastCall' = "GetMoviesSortedByRating"
    /\ UNCHANGED <<added, runVars>>

NextDB ==
    \/ \E title \in DBTitles : \E rating \in DBRatings : CallAddMovie(title, rating)
    \/ CallGetMoviesSortedByTitle
    \/ CallGetMoviesSortedByRating

SpecDB == Init /\ [][NextDB]_vars

----------------------------------------------------------------------------
(* The filter step of Run on its own: a collection is populated, then filtered *)

FilterTitles == {TitleShawshank, TitleInception, TitleDesperado, TitleUpper, TitleMix, TitleHades}

\* popularMovies.AddMovie(title, rating) while the collection is populated
Populate(title) ==
    /\ lastCall # "Filter"
    /\ CallAddMovie(title, 80)

\* StreamFlix.cpp lines 117-131 applied to the collection
CallFilter ==
    /\ lastCall # "Filter"
    /\ matchingMovies' = MatchingMovies(GetMovies(movies))
    /\ cout' = cout \o FilterLines(MatchingMovies(GetMovies(movies)))
    /\ lastCall' = "Filter"
    /\ UNCHANGED <<pcMain, pc, coutMutex, i, k, jsonString, movieJson, db, cerr,
                   consoleWriters, requests, responses, accessLog, terminated,
                   movies, sortedMovies, added>>

NextFilter ==
    \/ \E title \in FilterTitles : Populate(title)
    \/ CallFilter

SpecFilter == Init /\ [][NextFilter]_vars

----------------------------------------------------------------------------
(* Run against a remote that serves a fixed listing *)

\* "Movie A", "Movie B", "Movie C"
TitleMovieA == <<77, 111, 118, 105, 101, 32, 65>>
TitleMovieB == <<77, 111, 118, 105, 101, 32, 66>>
TitleMovieC == <<77, 111, 118, 105, 101, 32, 67>>

\* the "results" the remote serves for a page (vote_average in tenths)
ScenarioResults(t, page) ==
    IF t = "popularThread"
    THEN (IF page = 1 THEN <<JsonItem(TitleMovieA, 85), JsonItem(TitleMovieB, 91)>> ELSE <<>>)
    ELSE <<JsonItem(TitleMovieC, 70)>>

\* request.send returns the page that was asked for
ReceiveScenario(t) ==
    /\ pc[t] = "wait"
    /\ Receive(t, SendReturns(JsonText(Envelope(
                    ScenarioResults(t, requests[t][Len(requests[t])])))))

NextScenario ==
    \/ SpawnPopular
    \/ SpawnNowPlaying
    \/ \E t \in Workers : Lock(t)
    \/ \E t \in Workers : PrintThreadId(t)
    \/ \E t \in Workers : SendRequest(t)
    \/ \E t \in Workers : ReceiveScenario(t)
    \/ \E t \in Workers : Parse(t)
    \/ \E t \in Workers : AddItem(t)
    \/ \E t \in Workers : EndOfPage(t)
    \/ JoinPopular
    \/ JoinNowPlaying
    \/ \E c \in {"popularMovies", "nowPlayingMovies"} : DisplayMovies(c)
    \/ \E c \in {"popularMovies", "nowPlayingMovies"} : DisplayMoviesSortedByTitle(c)
    \/ \E c \in {"popularMovies", "nowPlayingMovies"} : DisplayMoviesSortedByRating(c)
    \/ Filter

SpecScenario == Init /\ [][NextScenario]_vars

----------------------------------------------------------------------------
(* Run with a remote that answers every request, with a well-formed body, and
   threads that are scheduled fairly. *)

\* the well-formed bodies of a short listing: all of its movies, if it has
\* any, are on page 1
ShortListingDocs(page) == IF page = 1 THEN WellFormedDocs ELSE {Envelope(<<>>)}

\* request.send returns a well-formed body
ReceiveWellFormed(t) ==
    /\ pc[t] = "wait"
    /\ \E d \in ShortListingDocs(requests[t][Len(requests[t])]) :
        Receive(t, SendReturns(JsonText(d)))

\* the steps of a thread function other than the return of send
WorkerStep(t) ==
    Lock(t) \/ PrintThreadId(t) \/ SendRequest(t) \/ Parse(t) \/ AddItem(t) \/ EndOfPage(t)

\* the steps of Run on the main thread
MainStep ==
    \/ SpawnPopular
    \/ SpawnNowPlaying
    \/ JoinPopular
    \/ JoinNowPlaying
    \/ \E c \in {"popularMovies", "nowPlayingMovies"} :
        DisplayMovies(c) \/ DisplayMoviesSortedByTitle(c) \/ DisplayMoviesSortedByRating(c)
    \/ Filter

NextLive ==
    \/ SpawnPopular
    \/ SpawnNowPlaying
    \/ \E t \in Workers : Lock(t)
    \/ \E t \in Workers : PrintThreadId(t)
    \/ \E t \in Workers : SendRequest(t)
    \/ \E t \in Workers : ReceiveWellFormed(t)
    \/ \E t \in Workers : Parse(t)
    \/ \E t \in Workers : AddItem(t)
    \/ \E t \in Workers : EndOfPage(t)
    \/ JoinPopular
    \/ JoinNowPlaying
    \/ \E c \in {"popularMovies", "nowPlayingMovies"} : DisplayMovies(c)
    \/ \E c \in {"popularMovies", "nowPlayingMovies"} : DisplayMoviesSortedByTitle(c)
    \/ \E c \in {"popularMovies", "nowPlayingMovies"} : DisplayMoviesSortedByRating(c)
    \/ Filter

\* a runnable thread is eventually run by the scheduler, and every call of
\* send eventually returns
SpecLive ==
    /\ Init
    /\ [][NextLive]_vars
    /\ WF_vars(MainStep)
    /\ WF_vars(WorkerStep("popularThread"))
    /\ WF_vars(WorkerStep("nowPlayingThread"))
    /\ WF_vars(ReceiveWellFormed("popularThread"))
    /\ WF_vars(ReceiveWellFormed("nowPlayingThread"))

----------------------------------------------------------------------------
(* Vocabulary of the properties *)

\* the "results" list a response delivers to the item loop (none when the
\* request failed or the body is not a JSON document)
ResponseList(outcome) ==
    IF outcome.kind = "response" /\ ~JsonParse(outcome.body).throws
    THEN ResultsOf(JsonParse(outcome.body).value).list
    ELSE <<>>

\* the Records a "results" list stands for
PageRecords(list) ==
    [n \in 1..Len(list) |-> Movie(list[n].title, ToFloat(list[n].vote_average))]

RECURSIVE ConcatPages(_, _)
ConcatPages(outcomes, n) ==
    IF n = 0 THEN <<>>
    ELSE ConcatPages(outcomes, n - 1) \o PageRecords(ResponseList(outcomes[n]))

RECURSIVE SumItemCounts(_, _)
SumItemCounts(outcomes, n) ==
    IF n = 0 THEN 0
    ELSE SumItemCounts(outcomes, n - 1) + Len(ResponseList(outcomes[n]))

\* pages the popular thread has processed to the end of their item loop
PagesCompleted ==
    IF pc["popularThread"] = "done" THEN LastPage
    ELSE IF i = 0 THEN 0
    ELSE i - 1

\* a display block line or a matching-movie line is on std::cout
DisplayStarted == \E n \in 1..Len(cout) : cout[n].kind # "threadId"

AggregationOver == pcMain \notin {"spawnPopular", "spawnNowPlaying", "joinPopular", "joinNowPlaying"}

AllResponses == UNION {{responses[t][n] : n \in 1..Len(responses[t])} : t \in Workers}

LastResponse(t) == responses[t][Len(responses[t])]

Count(list, x) == Cardinality({n \in 1..Len(list) : list[n] = x})

IsPermutation(a, b) ==
    /\ Len(a) = Len(b)
    /\ \A n \in 1..Len(a) : Count(a, a[n]) = Count(b, a[n])

\* ordinal order on texts: a is a prefix of b, or the first differing
\* character code of a is the smaller one
OrdinalLeq(a, b) ==
    \/ /\ Len(a) <= Len(b)
       /\ \A n \in 1..Len(a) : a[n] = b[n]
    \/ \E n \in 1..Len(a) :
        /\ n <= Len(b)
        /\ a[n] < b[n]
        /\ \A m \in 1..(n - 1) : a[m] = b[m]

WithRating(list, r) == SelectSeq(list, LAMBDA m : m.rating = r)

----------------------------------------------------------------------------
(* Properties of StreamFlix::Run, checked under Spec *)

\* C1 (as stated in the specification): whatever mix of failed requests and
\* well-formed responses the six fetches get, the run is not aborted: a
\* failed request only leaves its page without Records.
C1_RunNeverFails ==
    (\A o \in AllResponses :
        \/ o.kind = "exception"
        \/ /\ o.kind = "response"
           /\ o.body \in {JsonText(d) : d \in WellFormedDocs})
    => terminated = "no"

\* C2: no display block line and no matching-movie line is on std::cout, and
\* the caller is not past the joins, while a worker thread is still running.
C2_NoDisplayBeforeBothDone ==
    (DisplayStarted \/ AggregationOver) => \A t \in Workers : pc[t] = "done"

\* the popular thread has finished and is joined, the now-playing thread is
\* still running, and the caller waits without having displayed anything
C2_Witness ==
    /\ pcMain = "joinNowPlaying"
    /\ pc["popularThread"] = "done"
    /\ pc["nowPlayingThread"] = "wait"
    /\ ~DisplayStarted

\* C3: a request that throws never aborts the run from inside the fetch call;
\* the call returns the empty string and has written one diagnostic line.
C3_TransportErrorRecoveredLocally ==
    /\ terminated # "fetch"
    /\ \A t \in Workers :
        (pc[t] = "parse" /\ LastResponse(t).kind = "exception") =>
            /\ jsonString[t] = EmptyString
            /\ \E n \in 1..Len(cerr) : cerr[n] = Line("requestFailed", t, NoMovie)

C3_Witness ==
    /\ terminated = "no"
    /\ \E t \in Workers :
        /\ pc[t] = "parse"
        /\ LastResponse(t).kind = "exception"
        /\ jsonString[t] = EmptyString

\* C4 (as stated in the specification): a response body that is not JSON, or
\* is JSON of another shape than the envelope, does not abort the run.
C4_MalformedBodyIsSoftFailure ==
    (\A o \in AllResponses :
        /\ o.kind = "response"
        /\ o.body \in {Garbage} \cup {JsonText(d) : d \in WellFormedDocs \cup OtherDocs})
    => terminated = "no"

\* C5: every collection and every parse buffer is written by its own thread
\* only, and whoever else touches it does so after that thread has finished.
C5_OneWriterPerObject ==
    /\ \A t \in Workers :
        /\ accessLog[Collection(t)].writers \subseteq {t}
        /\ accessLog[Buffer(t)].writers \subseteq {t}
    /\ \A o \in Objects :
        \A w \in accessLog[o].writers :
            \A r \in (accessLog[o].writers \cup accessLog[o].readers) \ {w} :
                r = "main" /\ pc[w] = "done"

\* both threads have appended to their collections and both are still running
C5_Witness ==
    /\ accessLog["popularMovies"].writers = {"popularThread"}
    /\ accessLog["nowPlayingMovies"].writers = {"nowPlayingThread"}
    /\ accessLog["popularMovieJson"].writers = {"popularThread"}
    /\ accessLog["nowPlayingMovieJson"].writers = {"nowPlayingThread"}
    /\ \A t \in Workers : pc[t] = "items"

\* C6 (as stated in the specification): at most one thread is writing to the
\* console at any time, the request-failure message included.
C6_ConsoleWritesMutuallyExclusive == Cardinality(consoleWriters) <= 1

\* C7: the popular collection is the concatenation, in page order, of the
\* Records of the pages processed so far, followed by the Records of the
\* current page appended so far, each page in the order of its "results".
C7_PopularIsConcatenationOfPages ==
    popularMovies =
        ConcatPages(responses["popularThread"], PagesCompleted)
        \o (IF pc["popularThread"] = "items"
            THEN SubSeq(PageRecords(ResponseList(LastResponse("popularThread"))),
                        1, k["popularThread"] - 1)
            ELSE <<>>)

\* the run is over, pages 2 and 4 were full and the other pages were empty
C7_Witness ==
    /\ pcMain = "done"
    /\ \A p \in 1..LastPage :
        Len(ResponseList(responses["popularThread"][p])) = (IF p \in {2, 4} THEN MaxItems ELSE 0)
    /\ Len(popularMovies) = 2 * MaxItems
    /\ popularMovies[1] # popularMovies[2]

\* C8: once both threads are joined, the popular collection holds as many
\* Records as the five pages carried items; and when a request of the popular
\* thread has just failed, the collection holds as many Records as the pages
\* fetched so far carried, the failed page counting zero.
C8_PopularCountIsSumOfPages ==
    /\ AggregationOver =>
        /\ Len(responses["popularThread"]) = LastPage
        /\ Len(popularMovies) = SumItemCounts(responses["popularThread"], LastPage)
    /\ (pc["popularThread"] = "parse" /\ LastResponse("popularThread").kind = "exception") =>
        Len(popularMovies) =
            SumItemCounts(responses["popularThread"], Len(responses["popularThread"]))

\* both threads are joined, three pages were full, two carried nothing
C8_Witness ==
    /\ pcMain = "displayPopular"
    /\ Cardinality({p \in 1..LastPage :
            Len(ResponseList(responses["popularThread"][p])) = MaxItems}) = 3
    /\ Len(popularMovies) = 3 * MaxItems

----------------------------------------------------------------------------
(* Properties of MovieDatabase, checked under SpecDB *)

\* C9: the by-rating view is a permutation of the collection, ordered
\* non-increasingly by rating, and Records of equal rating keep the order
\* they have in the collection.
C9_SortedByRatingStablePermutation ==
    lastCall = "GetMoviesSortedByRating" =>
        /\ IsPermutation(sortedMovies, movies)
        /\ \A n \in 1..(Len(sortedMovies) - 1) :
            sortedMovies[n].rating >= sortedMovies[n + 1].rating
        /\ \A r \in DBRatings : WithRating(sortedMovies, r) = WithRating(movies, r)

\* a full collection with a lower rating first and two different Records of
\* equal rating has been sorted by rating
C9_Witness ==
    /\ lastCall = "GetMoviesSortedByRating"
    /\ Len(movies) = MaxLen
    /\ sortedMovies # movies
    /\ \E p, q \in 1..Len(movies) :
        /\ p < q
        /\ movies[p].rating = movies[q].rating
        /\ movies[p].title # movies[q].title

\* C10: the by-title view is a permutation of the collection (duplicates
\* kept), ordered non-decreasingly by title in ordinal, case-sensitive order.
C10_SortedByTitleOrdinalPermutation ==
    lastCall = "GetMoviesSortedByTitle" =>
        /\ IsPermutation(sortedMovies, movies)
        /\ \A n \in 1..(Len(sortedMovies) - 1) :
            OrdinalLeq(sortedMovies[n].title, sortedMovies[n + 1].title)

\* a collection holding a Record twice, and a lower-case title before an
\* upper-case one, has been sorted by title
C10_Witness ==
    /\ lastCall = "GetMoviesSortedByTitle"
    /\ Len(movies) = MaxLen
    /\ sortedMovies # movies
    /\ \E p, q \in 1..Len(movies) : p < q /\ movies[p] = movies[q]
    /\ \E p, q \in 1..Len(movies) :
        p < q /\ movies[p].title = CStr(TitleLow) /\ movies[q].title = CStr(TitleDes)

\* C11: whatever AddMovie and sorted-view calls were made, GetMovies returns
\* the appended Records, all of them, in the order they were appended.
C11_SortedViewsLeaveSourceAlone ==
    GetMovies(movies) =
        [n \in 1..Len(added) |-> [title |-> CStr(added[n].title), rating |-> added[n].rating]]

\* a sorted view that differs from the collection has just been computed
C11_Witness ==
    /\ lastCall \in {"GetMoviesSortedByTitle", "GetMoviesSortedByRating"}
    /\ Len(movies) = MaxLen
    /\ sortedMovies # movies
    /\ IsPermutation(sortedMovies, movies)

\* C12: every AddMovie call makes the collection one Record longer, the new
\* Record being the last one and the earlier ones staying as they were; a
\* title already present is added again.
C12_AddMovieAppendsOneRecord ==
    [][added' # added =>
        /\ Len(added') = Len(added) + 1
        /\ Len(movies') = Len(movies) + 1
        /\ SubSeq(movies', 1, Len(movies)) = movies
        /\ movies'[Len(movies')].title = CStr(added'[Len(added')].title)
        /\ movies'[Len(movies')].rating = added'[Len(added')].rating]_vars

\* the Record just added has the title of an earlier Record
C12_Witness ==
    /\ lastCall = "AddMovie"
    /\ Len(movies) >= 2
    /\ \E p \in 1..(Len(movies) - 1) : movies[p].title = movies[Len(movies)].title
    /\ Len(added) = Len(movies)

----------------------------------------------------------------------------
(* Properties of the filter step, checked under SpecFilter *)

\* the text holds "des" with every letter in either case
ContainsDesAnyCase(title) ==
    \E n \in 1..(Len(title) - 2) :
        /\ title[n] \in {100, 68}
        /\ title[n + 1] \in {101, 69}
        /\ title[n + 2] \in {115, 83}

\* the text holds "des" or "Des"
ContainsDesOrCapitalDes(title) ==
    \E n \in 1..(Len(title) - 2) :
        SubSeq(title, n, n + 2) \in {<<100, 101, 115>>, <<68, 101, 115>>}

TitlesOf(list) == {list[n].title : n \in 1..Len(list)}

\* C13 (as stated in the specification): the filter selects the titles that
\* hold "des" in any letter case, so "DES" and "dEs" are selected, and of
\* Shawshank, Inception, Desperado only Desperado.
C13_FilterIsCaseInsensitive ==
    lastCall = "Filter" =>
        /\ TitlesOf(matchingMovies) = {t \in TitlesOf(movies) : ContainsDesAnyCase(t)}
        /\ TitlesOf(movies) = {TitleShawshank, TitleInception, TitleDesperado}
            => TitlesOf(matchingMovies) = {TitleDesperado}

\* C13 (amended): the filter selects the titles that hold "des" or "Des"
\* (only the d may be in either case): of Shawshank, Inception, Desperado
\* only Desperado is selected, and "DES" and "dEs" are not selected.
C13_FilterMatchesDesOrCapitalDes ==
    lastCall = "Filter" =>
        /\ TitlesOf(matchingMovies) = {t \in TitlesOf(movies) : ContainsDesOrCapitalDes(t)}
        /\ TitlesOf(movies) = {TitleShawshank, TitleInception, TitleDesperado}
            => TitlesOf(matchingMovies) = {TitleDesperado}
        /\ TitlesOf(matchingMovies) \cap {TitleUpper, TitleMix} = {}

\* the three titles of the example were filtered
C13_Witness ==
    /\ lastCall = "Filter"
    /\ TitlesOf(movies) = {TitleShawshank, TitleInception, TitleDesperado}
    /\ TitlesOf(matchingMovies) = {TitleDesperado}

RECURSIVE KeepMatching(_)
KeepMatching(list) ==
    IF list = <<>> THEN <<>>
    ELSE (IF ContainsDesOrCapitalDes(Head(list).title) THEN <<Head(list)>> ELSE <<>>)
         \o KeepMatching(Tail(list))

\* C14: the filter output is the collection with the Records whose title
\* holds neither "des" nor "Des" left out: same order, same multiplicities;
\* one line is printed per Record of it, and the collection is as it was.
C14_FilterIsOrderedSubsequence ==
    lastCall = "Filter" =>
        /\ matchingMovies = KeepMatching(movies)
        /\ Len(cout) = Len(matchingMovies)
        /\ \A n \in 1..Len(cout) : cout[n].kind = "match" /\ cout[n].movie = matchingMovies[n]
        /\ movies = [n \in 1..Len(added) |-> [title |-> CStr(added[n].title), rating |-> added[n].rating]]

\* two different matching Records around one that does not match
C14_Witness ==
    /\ lastCall = "Filter"
    /\ Len(movies) = 3
    /\ Len(matchingMovies) = 2
    /\ matchingMovies[1] = movies[1]
    /\ matchingMovies[2] = movies[3]
    /\ movies[1] # movies[3]

----------------------------------------------------------------------------
(* Further properties of StreamFlix::Run, checked under Spec *)

\* C15: the popular thread asks for pages 1, 2, 3, 4, 5 in this order and for
\* nothing else, the now-playing thread asks for page 1 once; a thread that
\* has returned has issued all of its requests.
C15_FetchesPerThread ==
    /\ Len(requests["popularThread"]) <= 5
    /\ \A n \in 1..Len(requests["popularThread"]) : requests["popularThread"][n] = n
    /\ Len(requests["nowPlayingThread"]) <= 1
    /\ \A n \in 1..Len(requests["nowPlayingThread"]) : requests["nowPlayingThread"][n] = 1
    /\ pc["popularThread"] = "done" => requests["popularThread"] = <<1, 2, 3, 4, 5>>
    /\ pc["nowPlayingThread"] = "done" => requests["nowPlayingThread"] = <<1>>

\* the now-playing fetch is in flight between two popular fetches, together
\* with the third popular fetch
C15_Witness ==
    /\ pc["nowPlayingThread"] = "wait"
    /\ pc["popularThread"] = "wait"
    /\ requests["popularThread"] = <<1, 2, 3>>
    /\ requests["nowPlayingThread"] = <<1>>

\* the now-playing fetch has returned before the first popular fetch is issued
C15_NowPlayingFirst ==
    /\ Len(responses["nowPlayingThread"]) = 1
    /\ requests["popularThread"] = <<>>

\* the now-playing fetch is issued after the last popular fetch has returned
C15_NowPlayingLast ==
    /\ pc["nowPlayingThread"] = "wait"
    /\ pc["popularThread"] = "done"

\* C16: a thread has at most one request without its response, and it has one
\* exactly while it waits in send; when the popular thread waits for a page,
\* every Record of every earlier page is in the collection.
C16_FetchesAreSequential ==
    /\ \A t \in Workers :
        Len(requests[t]) = Len(responses[t]) + (IF pc[t] = "wait" THEN 1 ELSE 0)
    /\ pc["popularThread"] = "wait" =>
        popularMovies =
            ConcatPages(responses["popularThread"], Len(responses["popularThread"]))

\* page 3 is being fetched after two full pages were appended
C16_Witness ==
    /\ pc["popularThread"] = "wait"
    /\ requests["popularThread"] = <<1, 2, 3>>
    /\ Len(responses["popularThread"]) = 2
    /\ Len(popularMovies) = 2 * MaxItems

\* C17: both collections are empty when Run starts, and once both threads
\* are joined no step changes either collection: the three displays of each
\* collection and the filter leave size, content and order as they were.
C17_CollectionsFrozenAfterJoin ==
    /\ popularMovies = <<>> /\ nowPlayingMovies = <<>>
    /\ [][AggregationOver => db' = db]_vars

\* Run has returned after displaying collections whose by-rating view is in
\* another order than the collection, and after a filter that selected some
C17_Witness ==
    /\ pcMain = "done"
    /\ popularMovies # <<>>
    /\ nowPlayingMovies # <<>>
    /\ GetMoviesSortedByRating(popularMovies) # popularMovies
    /\ GetMoviesSortedByRating(nowPlayingMovies) # nowPlayingMovies
    /\ matchingMovies # <<>>

\* a response whose body is {"results": []}
EmptyPage == SendReturns(JsonText(Envelope(<<>>)))

\* C18: as long as every response received is a page with zero items, no
\* thread fails and both collections are empty; when Run has returned, all
\* six pages were fetched, the sorted views are empty, the filter selected
\* nothing and the output holds no movie line.
C18_AllPagesEmpty ==
    AllResponses \subseteq {EmptyPage} =>
        /\ terminated = "no"
        /\ cerr = <<>>
        /\ popularMovies = <<>> /\ nowPlayingMovies = <<>>
        /\ pcMain = "done" =>
            /\ Len(responses["popularThread"]) = 5
            /\ Len(responses["nowPlayingThread"]) = 1
            /\ \A c \in {"popularMovies", "nowPlayingMovies"} :
                GetMoviesSortedByTitle(db[c]) = <<>> /\ GetMoviesSortedByRating(db[c]) = <<>>
            /\ matchingMovies = <<>>
            /\ \A n \in 1..Len(cout) : cout[n].kind \notin {"movie", "match"}

\* Run has returned after six empty pages
C18_Witness ==
    /\ pcMain = "done"
    /\ Len(responses["popularThread"]) = 5
    /\ Len(responses["nowPlayingThread"]) = 1
    /\ AllResponses = {EmptyPage}
    /\ Len(cout) = 2 + 6 * 3

\* the titles of a list, in its order
TitleSeq(list) == [n \in 1..Len(list) |-> list[n].title]

\* C19: with popular page 1 = [("Movie A", 8.5), ("Movie B", 9.1)], popular
\* pages 2..5 empty and now-playing page 1 = [("Movie C", 7.0)], no thread
\* fails, and from the joins on the popular collection is Movie A, Movie B
\* (rated as the float conversions of 8.5, 9.1), its by-rating view is Movie B,
\* Movie A, and the now-playing collection is Movie C.
C19_EndToEndScenario ==
    /\ terminated = "no"
    /\ AggregationOver =>
        /\ TitleSeq(popularMovies) = <<TitleMovieA, TitleMovieB>>
        /\ popularMovies[1].rating = ToFloat(85)
        /\ popularMovies[2].rating = ToFloat(91)
        /\ popularMovies[1].rating < popularMovies[2].rating
        /\ TitleSeq(GetMoviesSortedByRating(popularMovies)) = <<TitleMovieB, TitleMovieA>>
        /\ TitleSeq(nowPlayingMovies) = <<TitleMovieC>>
    /\ pcMain = "done" =>
        \E n \in 1..(Len(cout) - 1) :
            /\ cout[n] = Line("movie", "POPULAR", popularMovies[2])
            /\ cout[n + 1] = Line("movie", "POPULAR", popularMovies[1])

\* Run has returned in the scenario, all six pages fetched
C19_Witness ==
    /\ pcMain = "done"
    /\ requests["popularThread"] = <<1, 2, 3, 4, 5>>
    /\ requests["nowPlayingThread"] = <<1>>
    /\ Len(popularMovies) = 2
    /\ Len(nowPlayingMovies) = 1

\* C20: a thread waiting in send does nothing until send returns, however
\* long that takes, and while a thread waits in send Run is not past the
\* joins; when every fetch returns with a well-formed body, Run eventually
\* returns, after the filter step, with all six pages fetched and no thread
\* failed.
C20_BlockedUntilReturnThenTerminates ==
    /\ [][\A t \in Workers :
            pc[t] = "wait" /\ responses'[t] = responses[t]
                => pc'[t] = "wait" /\ db'[Collection(t)] = db[Collection(t)]]_vars
    /\ [](\A t \in Workers : pc[t] = "wait" => ~AggregationOver)
    /\ <>[](/\ pcMain = "done"
            /\ terminated = "no"
            /\ Len(responses["popularThread"]) = 5
            /\ Len(responses["nowPlayingThread"]) = 1
            /\ cout # <<>> /\ cout[Len(cout)].kind \in {"movie", "match", "rule"})

\* the popular thread waits in send for page 4 while the now-playing thread
\* has returned and main waits in popularThread.join()
C20_Witness ==
    /\ pc["popularThread"] = "wait"
    /\ requests["popularThread"] = <<1, 2, 3, 4>>
    /\ pc["nowPlayingThread"] = "done"
    /\ pcMain = "joinPopular"

----------------------------------------------------------------------------
(* Faults, output order and independence of the two threads *)

\* an item without "title" or without "vote_average"
LacksField(item) == ~item.hasTitle \/ ~item.hasVote

\* position of the first item lacking a field (Len + 1 if there is none)
FirstLacking(list) ==
    IF \E n \in 1..Len(list) : LacksField(list[n])
    THEN CHOOSE n \in 1..Len(list) :
            LacksField(list[n]) /\ \A m \in 1..(n - 1) : ~LacksField(list[m])
    ELSE Len(list) + 1

\* C21: a page with an item lacking "title" or "vote_average" is the last
\* page its thread fetches, and the thread never returns; its collection
\* holds at most the Records of the earlier pages and of the items before
\* the malformed one, so none for the malformed item or for what follows
\* it; processing the malformed item raises the fault that ends the run.
C21_MissingFieldRaisesFault ==
    /\ \A t \in Workers : \A p \in 1..Len(responses[t]) :
        LET list == ResponseList(responses[t][p]) IN
        FirstLacking(list) <= Len(list) =>
            /\ p = Len(responses[t])
            /\ Len(requests[t]) = p
            /\ pc[t] \in {"parse", "items"}
            /\ pc[t] = "parse" =>
                db[Collection(t)] = ConcatPages(responses[t], p - 1)
            /\ pc[t] = "items" =>
                /\ k[t] <= FirstLacking(list)
                /\ db[Collection(t)] =
                    ConcatPages(responses[t], p - 1)
                        \o PageRecords(SubSeq(list, 1, k[t] - 1))
    /\ \A c \in {"popularMovies", "nowPlayingMovies"} :
        TitlesOf(db[c]) \cap {NoVoteItem.title, NoTitleItem.title} = {}
    /\ terminated = "item" =>
        \E t \in Workers :
            /\ pc[t] = "items"
            /\ k[t] = FirstLacking(ResponseList(LastResponse(t)))
            /\ k[t] <= Len(ResponseList(LastResponse(t)))

\* the popular thread faulted on the first item of its third page, an item
\* without "vote_average" that is followed by a complete item
C21_Witness ==
    /\ terminated = "item"
    /\ Len(responses["popularThread"]) = 3
    /\ ResponseList(LastResponse("popularThread")) = <<NoVoteItem, CatalogueItem(1)>>
    /\ pc["popularThread"] = "items"
    /\ k["popularThread"] = 1
    /\ Len(popularMovies) = 2 * MaxItems

\* what is on std::cout apart from the two thread-ID lines
DisplayPart == SelectSeq(cout, LAMBDA l : l.kind # "threadId")

\* a block as the specification describes it: its header, then one line per
\* Record of the list, in the order of the list
ExpectedBlock(kind, label, list) ==
    <<[kind |-> "rule", label |-> label, movie |-> NoMovie],
      [kind |-> kind, label |-> label, movie |-> NoMovie],
      [kind |-> "rule", label |-> label, movie |-> NoMovie]>>
    \o [n \in 1..Len(list) |-> [kind |-> "movie", label |-> label, movie |-> list[n]]]

ExpectedMatches(list) ==
    [n \in 1..Len(list) |-> [kind |-> "match", label |-> "Matching movie", movie |-> list[n]]]

\* the seven parts of the output, in their order
ExpectedParts ==
    <<ExpectedBlock("insertionOrder", "POPULAR", popularMovies),
      ExpectedBlock("sortedAlphabetically", "POPULAR", GetMoviesSortedByTitle(popularMovies)),
      ExpectedBlock("sortedByRating", "POPULAR", GetMoviesSortedByRating(popularMovies)),
      ExpectedBlock("insertionOrder", "NOW PLAYING", nowPlayingMovies),
      ExpectedBlock("sortedAlphabetically", "NOW PLAYING", GetMoviesSortedByTitle(nowPlayingMovies)),
      ExpectedBlock("sortedByRating", "NOW PLAYING", GetMoviesSortedByRating(nowPlayingMovies)),
      ExpectedMatches(KeepMatching(popularMovies))>>

RECURSIVE FirstParts(_)
FirstParts(n) == IF n = 0 THEN <<>> ELSE FirstParts(n - 1) \o ExpectedParts[n]

\* C22: after the joins the output grows by whole parts in one fixed order:
\* POPULAR in insertion order, by title, by rating, NOW PLAYING in insertion
\* order, by title, by rating, then the matching-movie lines; each block has
\* one line per Record of its collection; when Run returns all seven parts
\* are on std::cout, after the two thread-ID lines.
C22_OutputInFixedOrder ==
    /\ \E n \in 0..7 : DisplayPart = FirstParts(n)
    /\ pcMain = "done" =>
        /\ DisplayPart = FirstParts(7)
        /\ SubSeq(cout, 3, Len(cout)) = DisplayPart
        /\ Len(cout) = 2 + 6 * 3 + 3 * Len(popularMovies) + 3 * Len(nowPlayingMovies)
                         + Len(KeepMatching(popularMovies))

\* Run has returned with Records in both collections, the sorted views of
\* the popular collection in other orders than the collection, and matches
C22_Witness ==
    /\ pcMain = "done"
    /\ Len(popularMovies) >= 2 * MaxItems
    /\ nowPlayingMovies # <<>>
    /\ GetMoviesSortedByRating(popularMovies) # popularMovies
    /\ GetMoviesSortedByTitle(popularMovies) # popularMovies
    /\ KeepMatching(popularMovies) # <<>>

\* the fetch returned a body that is a JSON document all of whose items
\* have both fields
ParsesWithCompleteItems(outcome) ==
    /\ outcome.kind = "response"
    /\ outcome.body.text = "json"
    /\ \A n \in 1..Len(outcome.body.doc.results) :
        ~LacksField(outcome.body.doc.results[n])

\* C23: Run is past the joins, or has written a display or filter line, only
\* if all six fetches returned a body that parses as JSON and whose items
\* have both fields; once an exception has left a thread function the
\* process is over with no display or filter line written and the caller
\* still in a join, whatever the other thread has achieved.
C23_DisplayOnlyAfterSixGoodFetches ==
    /\ (AggregationOver \/ DisplayStarted) =>
        /\ Len(responses["popularThread"]) = 5
        /\ Len(responses["nowPlayingThread"]) = 1
        /\ \A o \in AllResponses : ParsesWithCompleteItems(o)
    /\ terminated # "no" =>
        /\ ~DisplayStarted
        /\ ~AggregationOver
        /\ \E t \in Workers : pc[t] \in {"parse", "items"} /\ Len(responses[t]) > 0
    /\ \A t \in Workers :
        (pc[t] = "parse" /\ LastResponse(t).kind = "exception") => jsonString[t] = EmptyString
    /\ \A t \in Workers : \A p \in 1..Len(responses[t]) :
        (p < Len(responses[t]) \/ pc[t] = "done") => ParsesWithCompleteItems(responses[t][p])

\* the popular thread has returned after five pages, with Records, and is
\* joined; the process was ended by the now-playing thread parsing the empty
\* body its failed request left
C23_Witness ==
    /\ terminated = "parse"
    /\ pc["popularThread"] = "done"
    /\ Len(popularMovies) = 5 * MaxItems
    /\ pcMain = "joinNowPlaying"
    /\ LastResponse("nowPlayingThread") = SendThrows
    /\ jsonString["nowPlayingThread"] = EmptyString
    /\ pc["nowPlayingThread"] = "parse"
    /\ ~DisplayStarted

\* C24: when Run has returned, everything it produced is a function of the
\* six responses alone: each collection is the concatenation of the pages
\* its own thread received, the seven parts of the output are computed from
\* these, nothing is on std::cerr, and the only thing the interleaving
\* decides is which of the two thread-ID lines is first.
C24_ResultIsFunctionOfResponses ==
    pcMain = "done" =>
        /\ popularMovies = ConcatPages(responses["popularThread"], 5)
        /\ nowPlayingMovies = ConcatPages(responses["nowPlayingThread"], 1)
        /\ matchingMovies = KeepMatching(ConcatPages(responses["popularThread"], 5))
        /\ DisplayPart = FirstParts(7)
        /\ SubSeq(cout, 3, Len(cout)) = DisplayPart
        /\ {cout[1], cout[2]} =
            {[kind |-> "threadId", label |-> t, movie |-> NoMovie] : t \in Workers}
        /\ cerr = <<>>

\* Run has returned with Records in both collections; the thread-ID line of
\* the now-playing thread is the first line although it was started second
C24_Witness ==
    /\ pcMain = "done"
    /\ cout[1].label = "nowPlayingThread"
    /\ Len(popularMovies) = 3 * MaxItems
    /\ Len(nowPlayingMovies) = MaxItems

\* the same, with the thread-ID line of the popular thread first
C24_PopularLineFirst ==
    /\ pcMain = "done"
    /\ cout[1].label = "popularThread"
    /\ Len(popularMovies) = 3 * MaxItems
    /\ Len(nowPlayingMovies) = MaxItems

\* thread-ID lines of thread t on std::cout
ThreadIdLines(t) == Cardinality({n \in 1..Len(cout) : cout[n].kind = "threadId" /\ cout[n].label = t})

\* C25: coutMutex is free or held by a thread that is writing its thread-ID
\* line, never by the caller and never by a thread that is fetching, done or
\* faulted; a thread past its start-up has taken it once (one thread-ID
\* line); while one thread waits in send, the other one, unless it has
\* returned or waits too, can take a step; and as long as Run has not got
\* past the joins, some thread waits in send or some step can be taken.
C25_MutexNeverBlocksProgress ==
    /\ coutMutex \in {"free"} \cup Workers
    /\ \A t \in Workers :
        /\ coutMutex = t <=> pc[t] = "print"
        /\ ThreadIdLines(t) = (IF pc[t] \in {"idle", "lock", "print"} THEN 0 ELSE 1)
    /\ \A t \in Workers : \A u \in Workers \ {t} :
        (Running /\ pc[t] = "wait" /\ pc[u] \notin {"idle", "wait", "done"}) =>
            ENABLED (WorkerStep(u) \/ ReportFailure(u))
    /\ (Running /\ ~AggregationOver) =>
        \/ \E t \in Workers : pc[t] = "wait"
        \/ ENABLED (\/ SpawnPopular \/ SpawnNowPlaying \/ JoinPopular \/ JoinNowPlaying
                    \/ \E t \in Workers : WorkerStep(t) \/ ReportFailure(t))

\* the popular thread waits in send, the mutex is free, and the now-playing
\* thread is about to take it, while the caller waits in the first join
C25_Witness ==
    /\ pc["popularThread"] = "wait"
    /\ pc["nowPlayingThread"] = "lock"
    /\ coutMutex = "free"
    /\ pcMain = "joinPopular"
    /\ Len(responses["popularThread"]) = 2

\* C26: a thread that has issued a fetch has written its thread-ID line, and
\* a thread that has not finished writing it has issued none; the two
\* threads are never both inside the statement that writes the line, and
\* the one inside it holds coutMutex; the thread-ID lines are the first two
\* lines of std::cout.
C26_StartupLineBeforeFirstFetch ==
    /\ \A t \in Workers :
        /\ requests[t] # <<>> => ThreadIdLines(t) = 1
        /\ pc[t] \in {"idle", "lock", "print"} => requests[t] = <<>> /\ ThreadIdLines(t) = 0
        /\ pc[t] = "print" => coutMutex = t
    /\ ~(pc["popularThread"] = "print" /\ pc["nowPlayingThread"] = "print")
    /\ \A n \in 1..Len(cout) : cout[n].kind = "threadId" => n <= 2

\* the line of the now-playing thread is first, that of the popular thread
\* second, and both threads are in their first fetch
C26_Witness ==
    /\ Len(cout) = 2
    /\ cout[1] = Line("threadId", "nowPlayingThread", NoMovie)
    /\ cout[2] = Line("threadId", "popularThread", NoMovie)
    /\ requests = [t \in Workers |-> <<1>>]
    /\ responses = [t \in Workers |-> <<>>]

\* the same, with the line of the popular thread first
C26_PopularFirst ==
    /\ Len(cout) = 2
    /\ cout[1] = Line("threadId", "popularThread", NoMovie)
    /\ cout[2] = Line("threadId", "nowPlayingThread", NoMovie)
    /\ requests = [t \in Workers |-> <<1>>]
    /\ responses = [t \in Workers |-> <<>>]

\* one thread waits for the mutex while the other one writes its line
C26_OneWaitsForTheOther ==
    /\ pc["popularThread"] = "lock"
    /\ pc["nowPlayingThread"] = "print"

----------------------------------------------------------------------------
(* Further properties of MovieDatabase and of the filter *)

WithTitle(list, x) == SelectSeq(list, LAMBDA m : m.title = x)

\* C27: in the by-title view the Records of one title, whatever their
\* ratings, are in the order they have in the collection.
C27_SortedByTitleIsStable ==
    lastCall = "GetMoviesSortedByTitle" =>
        \A x \in TitlesOf(movies) : WithTitle(sortedMovies, x) = WithTitle(movies, x)

\* a collection holding one title twice, the higher rating first in one
\* case and second in another, and a smaller title after them, was sorted
C27_Witness ==
    /\ lastCall = "GetMoviesSortedByTitle"
    /\ Len(movies) = MaxLen
    /\ movies[1].title = movies[2].title
    /\ movies[1].rating < movies[2].rating
    /\ sortedMovies # movies

\* the same with the higher rating first
C27_HigherRatingFirst ==
    /\ lastCall = "GetMoviesSortedByTitle"
    /\ Len(movies) = MaxLen
    /\ movies[1].title = movies[2].title
    /\ movies[1].rating > movies[2].rating
    /\ sortedMovies # movies

\* the "Matching movie: " lines on std::cout
MatchLines == SelectSeq(cout, LAMBDA l : l.kind = "match")

\* C28: every Record of the filter output, and every matching-movie line, is
\* a Record of the popular collection; when Run has returned the filter
\* output is what the popular collection alone gives, so a now-playing
\* Record whose title matches is in it only if the popular collection
\* holds that title too.
C28_FilterReadsPopularOnly ==
    /\ \A n \in 1..Len(matchingMovies) :
        \E m \in 1..Len(popularMovies) : popularMovies[m] = matchingMovies[n]
    /\ \A n \in 1..Len(MatchLines) :
        \E m \in 1..Len(popularMovies) : popularMovies[m] = MatchLines[n].movie
    /\ pcMain = "done" =>
        /\ matchingMovies = KeepMatching(popularMovies)
        /\ Len(MatchLines) = Len(KeepMatching(popularMovies))
        /\ \A x \in TitlesOf(nowPlayingMovies) \ TitlesOf(popularMovies) :
            /\ x \notin TitlesOf(matchingMovies)
            /\ \A n \in 1..Len(MatchLines) : MatchLines[n].movie.title # x

\* Run has returned; the now-playing collection holds a title that matches,
\* the popular collection is empty, and nothing was selected
C28_Witness ==
    /\ pcMain = "done"
    /\ popularMovies = <<>>
    /\ KeepMatching(nowPlayingMovies) # <<>>
    /\ matchingMovies = <<>>
    /\ MatchLines = <<>>

\* the text up to its first NUL character
TruncateAtNul(str) ==
    IF \E n \in 1..Len(str) : str[n] = 0
    THEN SubSeq(str, 1, (CHOOSE n \in 1..Len(str) :
                            str[n] = 0 /\ \A m \in 1..(n - 1) : str[m] # 0) - 1)
    ELSE str

\* C29: every AddMovie call stores a Record (no call fails or is dropped),
\* with the rating it was given; the stored title is the given title up to
\* its first NUL character: the given title itself when it holds no NUL,
\* and a shorter text when it does.
C29_TitleStoredUpToFirstNul ==
    /\ Len(movies) = Len(added)
    /\ \A n \in 1..Len(added) :
        /\ movies[n].rating = added[n].rating
        /\ movies[n].title = TruncateAtNul(added[n].title)
        /\ (\A m \in 1..Len(added[n].title) : added[n].title[m] # 0)
            => movies[n].title = added[n].title
        /\ (\E m \in 1..Len(added[n].title) : added[n].title[m] = 0)
            => /\ movies[n].title # added[n].title
               /\ Len(movies[n].title) < Len(added[n].title)

\* "a\0b" was added and is stored as "a", next to a title without NUL that
\* is stored as given
C29_Witness ==
    /\ Len(added) = 2
    /\ added[1].title = <<97, 0, 98>>
    /\ movies[1].title = <<97>>
    /\ added[2].title = <<68, 101, 115>>
    /\ movies[2].title = <<68, 101, 115>>

====
